---------------------------- MODULE Spec2Model ----------------------------
(***************************************************************************)
(* Conveyor Vision item counter.                                           *)
(*                                                                         *)
(* Two state machines live in this module.                                 *)
(*                                                                         *)
(*   Spec          the Express/Socket.IO server: the upload route spawns   *)
(*                 one processor per job, relays the JSON lines of its     *)
(*                 stdout as notifications, and the count route sums the   *)
(*                 completed jobs of the in-memory job store.  The         *)
(*                 processor itself is seen through its argv, its stdout   *)
(*                 lines and its exit code.                                *)
(*   SpecPipeline  the processor's tracker and line-crossing counter.      *)
(*                                                                         *)
(* Line positions are fractions of the frame height; they are kept in      *)
(* hundredths (0.5 is 50) so that they stay integers.                      *)
(***************************************************************************)
EXTENDS Integers, Sequences, FiniteSets, TLC

(* ------------------------------------------------------------------ *)
(* Bounds                                                              *)
(* ------------------------------------------------------------------ *)
\* Number of frames of every uploaded video.
TotalFrames == 2
\* The number of objects that cross the line in one frame.
NewPerFrame == {0, 1}
\* Number of frames of the video the pipeline of SpecPipeline runs on.
VideoFrames == 4

\* The job ids the storage engine hands out, in the order it hands them out.
JobOrder == <<"j1", "j2">>
JobIds == {JobOrder[i] : i \in 1..Len(JobOrder)}

VARIABLES
    jobs,       \* JobStore.jobs: job id -> Job
    emitted,    \* io.emit calls, per jobId of the payload, in order
    proc,       \* the spawned processor of each job
    out,        \* the lines each processor has written to its stdout
    rd,         \* how much of out the stdout "data" events have delivered
    closed,     \* jobs whose processor's "close" event has fired
    pending,    \* an upload request that multer has parsed
    countResp,  \* the body GET /api/count answers with in this step, if it does
    tracks,     \* the Tracker's active tracks: track id -> Track
    nextId,     \* the next track id to allocate
    events,     \* the CountEvents of the run
    frameIdx    \* the number of frames the pipeline has processed

srvVars == <<jobs, emitted, proc, out, rd, closed, pending, countResp>>
pipeVars == <<tracks, nextId, events, frameIdx>>

(* ------------------------------------------------------------------ *)
(* Values                                                              *)
(* ------------------------------------------------------------------ *)
\* null of Job.outputPath and Job.error
Null == <<>>
\* No request / no response
None == [kind |-> "none"]

\* A number as JavaScript has it: NaN or a value (hundredths for fractions).
NaN == [nan |-> TRUE, val |-> 0]
Num(v) == [nan |-> FALSE, val |-> v]

\* The texts a body field is sent with; "undefined" is the absent field.
LinePositionFields == {"undefined", "abc", "0", "0.5", "1.5"}
MinAreaFields == {"undefined", "0", "-5"}

\* parseFloat(text), in hundredths
parseFloat(text) ==
    CASE text = "0"   -> Num(0)
      [] text = "0.5" -> Num(50)
      [] text = "1"   -> Num(100)
      [] text = "1.5" -> Num(150)
      [] OTHER        -> NaN

\* parseInt(text, 10)
parseInt(text) ==
    CASE text = "0"    -> Num(0)
      [] text = "-5"   -> Num(-5)
      [] text = "1500" -> Num(1500)
      [] OTHER         -> NaN

\* a || b on numbers: NaN and 0 are falsy
OrElse(a, b) == IF a.nan \/ a.val = 0 THEN b ELSE a

\* String(n) of a number in hundredths, as the argv entry carries it
FractionToString(n) ==
    CASE n.nan     -> "NaN"
      [] n.val = 0   -> "0"
      [] n.val = 50  -> "0.5"
      [] n.val = 100 -> "1"
      [] n.val = 150 -> "1.5"

IntToString(n) ==
    CASE n.nan       -> "NaN"
      [] n.val = 0    -> "0"
      [] n.val = -5   -> "-5"
      [] n.val = 1500 -> "1500"

\* path.basename of a path kept as its segments
basename(p) == p[Len(p)]

\* multer's fileFilter: the extension or the mime type names a video
Extensions == {".mp4", ".txt"}
MimeTypes == {"video/mp4", "text/plain"}
fileFilter(ext, mime) ==
    LET extOk == ext \in {".mp4", ".avi", ".mov", ".mkv", ".webm"}
        mimeOk == mime \in {"video/mp4"}
    IN extOk \/ mimeOk

(* ------------------------------------------------------------------ *)
(* The job store                                                       *)
(* ------------------------------------------------------------------ *)
\* Map.values(): the jobs in insertion order
JobStore_values == SelectSeq(JobOrder, LAMBDA j : j \in DOMAIN jobs)

JobStore_size == Cardinality(DOMAIN jobs)

\* Mutant: the status of the job is not looked at
RECURSIVE TotalLoop_AnyStatus(_, _)
TotalLoop_AnyStatus(ids, total) ==
    IF ids = <<>> THEN total
    ELSE TotalLoop_AnyStatus(Tail(ids), total + jobs[Head(ids)].count)

RECURSIVE TotalLoop(_, _)
TotalLoop(ids, total) ==
    IF ids = <<>> THEN total
    ELSE LET job == jobs[Head(ids)]
         IN TotalLoop(Tail(ids),
                      IF job.status = "done" THEN total + job.count ELSE total)

\* JobStore.totalCount()
JobStore_totalCount == TotalLoop(JobStore_values, 0)

(* ------------------------------------------------------------------ *)
(* The processor, as the server sees it                                *)
(* ------------------------------------------------------------------ *)
\* The exit code "close" reports: a number, or null after a signal.
Code(n) == [null |-> FALSE, val |-> n]
CodeNull == [null |-> TRUE, val |-> 0]

\* The processor reads --line-pos and --min-area back from argv.
ArgFraction(text) ==
    CASE text = "0"   -> 0
      [] text = "0.5" -> 50
      [] text = "1"   -> 100
      [] text = "1.5" -> 150

ArgInt(text) ==
    CASE text = "0"    -> 0
      [] text = "-5"   -> -5
      [] text = "1500" -> 1500

\* ConfigError: line position outside [0,1] or a min-area that is not positive
ConfigValid(argv) ==
    /\ ArgFraction(argv.linePos) >= 0
    /\ ArgFraction(argv.linePos) <= 100
    /\ ArgInt(argv.minArea) > 0

\* progressPercent of frame i: round(100 * i / T)
ProgressPercent(i) == (200 * i + TotalFrames) \div (2 * TotalFrames)

\* The path of the annotated video of a job
AnnotatedPath(j) == <<"uploads", j>>

\* The progress record after frame i
ProgressLine(i, count) ==
    [progress |-> ProgressPercent(i), frame |-> i, total |-> TotalFrames,
     count |-> count]

\* The final record
ResultLine(j, count) ==
    [count |-> count, output_path |-> AnnotatedPath(j),
     total_frames |-> TotalFrames]

NoProc == [phase |-> "none", argv |-> [linePos |-> "0.5", minArea |-> "1500"],
           frame |-> 0, count |-> 0, code |-> Code(0)]

Alive(j) == proc[j].phase \in {"running", "finishing"}

(* ------------------------------------------------------------------ *)
(* Init                                                                *)
(* ------------------------------------------------------------------ *)
SrvInit ==
    /\ jobs = << >>
    /\ emitted = [j \in JobIds |-> << >>]
    /\ proc = [j \in JobIds |-> NoProc]
    /\ out = [j \in JobIds |-> << >>]
    /\ rd = [j \in JobIds |-> [n |-> 0, partial |-> FALSE]]
    /\ closed = {}
    /\ pending = None
    /\ countResp = None

\* A response written by an earlier step has left the server; the pipeline
\* of SpecPipeline is not part of the server
Sent == countResp' = None /\ UNCHANGED pipeVars

(* ------------------------------------------------------------------ *)
(* POST /api/upload                                                    *)
(* ------------------------------------------------------------------ *)
\* upload.single("video"): multer filters and stores the file, parses the body.
\* Uploads are taken one after another: a request arrives once the processors
\* of the jobs in the store have closed.
UploadRequest(ext, mime, lp, ma) ==
    /\ pending.kind = "none"
    /\ JobStore_size < Len(JobOrder)
    /\ DOMAIN jobs \subseteq closed
    /\ pending' = [kind |-> "upload", file |-> fileFilter(ext, mime),
                   linePosition |-> lp, minArea |-> ma]
    /\ UNCHANGED <<jobs, emitted, proc, out, rd, closed>>
    /\ Sent

\* The same middleware when uploads are not held back: a request arrives
\* while the processors of earlier jobs are still running.
UploadRequestConcurrent(ext, mime, lp, ma) ==
    /\ pending.kind = "none"
    /\ JobStore_size < Len(JobOrder)
    /\ pending' = [kind |-> "upload", file |-> fileFilter(ext, mime),
                   linePosition |-> lp, minArea |-> ma]
    /\ UNCHANGED <<jobs, emitted, proc, out, rd, closed>>
    /\ Sent

\* const linePos = parseFloat(req.body.linePosition) || 0.5
LinePosOf(body) == OrElse(parseFloat(body.linePosition), Num(50))

\* const minArea = parseInt(req.body.minArea, 10) || 1500
MinAreaOf(body) == OrElse(parseInt(body.minArea), Num(1500))

NewJob(jobId) ==
    [id |-> jobId, status |-> "processing", count |-> 0, progress |-> 0,
     videoPath |-> <<"uploads", jobId>>, outputPath |-> Null, error |-> Null]

\* spawn(PYTHON, [DETECT_SCRIPT, videoPath, "--line-pos", ..., "--min-area", ...])
Spawn(linePos, minArea) ==
    [phase |-> "running",
     argv |-> [linePos |-> FractionToString(linePos),
               minArea |-> IntToString(minArea)],
     frame |-> 0, count |-> 0, code |-> Code(0)]

\* The route handler
UploadHandler ==
    /\ pending.kind = "upload"
    /\ pending' = None
    /\ Sent
    /\ IF ~pending.file
       THEN UNCHANGED <<jobs, emitted, proc, out, rd, closed>>
       ELSE LET jobId == JobOrder[JobStore_size + 1]
                linePos == LinePosOf(pending)
                minArea == MinAreaOf(pending)
            IN /\ jobs' = [k \in DOMAIN jobs \cup {jobId} |->
                             IF k = jobId THEN NewJob(jobId) ELSE jobs[k]]
               /\ proc' = [proc EXCEPT ![jobId] = Spawn(linePos, minArea)]
               /\ UNCHANGED <<emitted, out, rd, closed>>

(* ------------------------------------------------------------------ *)
(* The processor process                                               *)
(* ------------------------------------------------------------------ *)
Write(j, line) == out' = [out EXCEPT ![j] = Append(@, line)]

Exit(j, code) == proc' = [proc EXCEPT ![j].phase = "exited", ![j].code = code]

\* ConfigError: rejected before any frame is processed
ProcConfigError(j) ==
    /\ proc[j].phase = "running"
    /\ proc[j].frame = 0
    /\ ~ConfigValid(proc[j].argv)
    /\ Exit(j, Code(1))
    /\ UNCHANGED <<jobs, emitted, out, rd, closed, pending>>
    /\ Sent

\* InputError, DecodeError, OutputError: the run aborts, nothing more is written
ProcFatal(j) ==
    /\ proc[j].phase = "running"
    /\ ConfigValid(proc[j].argv)
    /\ Exit(j, Code(1))
    /\ UNCHANGED <<jobs, emitted, out, rd, closed, pending>>
    /\ Sent

\* One frame through the pipeline; the Emitter writes its progress record
ProcFrame(j, new) ==
    /\ proc[j].phase = "running"
    /\ ConfigValid(proc[j].argv)
    /\ proc[j].frame < TotalFrames
    /\ proc' = [proc EXCEPT ![j].frame = @ + 1, ![j].count = @ + new]
    /\ Write(j, ProgressLine(proc[j].frame + 1, proc[j].count + new))
    /\ UNCHANGED <<jobs, emitted, rd, closed, pending>>
    /\ Sent

\* After the last frame the Emitter writes the final record
ProcComplete(j) ==
    /\ proc[j].phase = "running"
    /\ ConfigValid(proc[j].argv)
    /\ proc[j].frame = TotalFrames
    /\ proc' = [proc EXCEPT ![j].phase = "finishing"]
    /\ Write(j, ResultLine(j, proc[j].count))
    /\ UNCHANGED <<jobs, emitted, rd, closed, pending>>
    /\ Sent

\* The process leaves after releasing its handles, with the code it ends on
ProcExit(j, code) ==
    /\ proc[j].phase = "finishing"
    /\ Exit(j, code)
    /\ UNCHANGED <<jobs, emitted, out, rd, closed, pending>>
    /\ Sent

\* The process is cancelled from outside: a signal ends it, the code is null
ProcKill(j) ==
    /\ Alive(j)
    /\ Exit(j, CodeNull)
    /\ UNCHANGED <<jobs, emitted, out, rd, closed, pending>>
    /\ Sent

(* ------------------------------------------------------------------ *)
(* proc.stdout.on("data")                                              *)
(* ------------------------------------------------------------------ *)
\* data.toString().trim().split("\n") of the bytes that arrive when the
\* stream moves from cursor `from` to cursor `to`: the lines between the two,
\* the first one only a tail if `from` stopped inside it, and a head of the
\* next line if `to` stops inside it.
Chunk(j, from, to) ==
    [k \in 1..(to.n - from.n) |->
        [whole |-> ~(k = 1 /\ from.partial), text |-> out[j][from.n + k]]]
    \o (IF to.partial
        THEN << [whole |-> FALSE, text |-> out[j][to.n + 1]] >>
        ELSE << >>)

\* The cursors a "data" event can move the stream to
NextCursors(j) ==
    {c \in [n : rd[j].n..Len(out[j]), partial : BOOLEAN] :
        /\ c.partial => c.n < Len(out[j])
        /\ \/ c.n > rd[j].n
           \/ c.partial /\ ~rd[j].partial}

\* JSON.parse(line): a piece of a line does not parse
JSONParse(piece) == [ok |-> piece.whole, msg |-> piece.text]

\* Mutant: the running count is read from msg.frame
OnProgress_CountsFrames(j, st, msg) ==
    IF "progress" \in DOMAIN msg
    THEN [job |-> [st.job EXCEPT !.progress = msg.progress,
                                 !.count = msg.frame],
          log |-> Append(st.log, [event |-> "progress", jobId |-> j,
                                  progress |-> msg.progress,
                                  count |-> msg.frame])]
    ELSE st

\* if (msg.progress !== undefined) { ... }
OnProgress(j, st, msg) ==
    IF "progress" \in DOMAIN msg
    THEN [job |-> [st.job EXCEPT !.progress = msg.progress,
                                 !.count = msg.count],
          log |-> Append(st.log, [event |-> "progress", jobId |-> j,
                                  progress |-> msg.progress,
                                  count |-> msg.count])]
    ELSE st

\* Mutant: the result line leaves job.progress as it is
OnResult_KeepsProgress(j, st, msg) ==
    IF "output_path" \in DOMAIN msg
    THEN [job |-> [st.job EXCEPT !.status = "done",
                                 !.count = msg.count,
                                 !.outputPath = msg.output_path],
          log |-> Append(st.log, [event |-> "done", jobId |-> j,
                                  count |-> msg.count,
                                  outputUrl |-> <<"/uploads",
                                                  basename(msg.output_path)>>])]
    ELSE st

\* if (msg.output_path !== undefined) { ... }
OnResult(j, st, msg) ==
    IF "output_path" \in DOMAIN msg
    THEN [job |-> [st.job EXCEPT !.status = "done",
                                 !.count = msg.count,
                                 !.outputPath = msg.output_path,
                                 !.progress = 100],
          log |-> Append(st.log, [event |-> "done", jobId |-> j,
                                  count |-> msg.count,
                                  outputUrl |-> <<"/uploads",
                                                  basename(msg.output_path)>>])]
    ELSE st

\* The body of the try block for one line
OnLine(j, st, piece) ==
    LET parsed == JSONParse(piece)
    IN IF parsed.ok
       THEN OnResult(j, OnProgress(j, st, parsed.msg), parsed.msg)
       ELSE st

\* for (const line of lines) { ... }
RECURSIVE OnLines(_, _, _)
OnLines(j, st, lines) ==
    IF lines = << >> THEN st
    ELSE OnLines(j, OnLine(j, st, Head(lines)), Tail(lines))

\* Mutant: the handlers share one job variable, which holds the newest job
StdoutData_NewestJob(j, to) ==
    /\ proc[j].phase # "none"
    /\ j \notin closed
    /\ to \in NextCursors(j)
    /\ LET newest == JobOrder[JobStore_size]
           st == OnLines(j, [job |-> jobs[newest], log |-> emitted[j]],
                         Chunk(j, rd[j], to))
       IN /\ jobs' = [jobs EXCEPT ![newest] = st.job]
          /\ emitted' = [emitted EXCEPT ![j] = st.log]
    /\ rd' = [rd EXCEPT ![j] = to]
    /\ UNCHANGED <<proc, out, closed, pending>>
    /\ Sent

StdoutData(j, to) ==
    /\ proc[j].phase # "none"
    /\ j \notin closed
    /\ to \in NextCursors(j)
    /\ LET st == OnLines(j, [job |-> jobs[j], log |-> emitted[j]],
                         Chunk(j, rd[j], to))
       IN /\ jobs' = [jobs EXCEPT ![j] = st.job]
          /\ emitted' = [emitted EXCEPT ![j] = st.log]
    /\ rd' = [rd EXCEPT ![j] = to]
    /\ UNCHANGED <<proc, out, closed, pending>>
    /\ Sent

(* ------------------------------------------------------------------ *)
(* proc.on("close")                                                    *)
(* ------------------------------------------------------------------ *)
\* `Process exited with code ${code}`
ExitMessage(code) == <<"Process exited with code", code>>

\* What the ChildProcess object keeps of an ended process: spawnargs, exitCode
Reaped(p) == [phase |-> "closed", argv |-> p.argv, frame |-> 0, count |-> 0,
              code |-> p.code]

\* Mutant: the comparison with 0 is inverted
CloseFails_Inverted(code, job) ==
    (~code.null /\ code.val = 0) /\ job.status # "done"

\* Mutant: the status of the job is not looked at
CloseFails_AnyStatus(code, job) == code.null \/ code.val # 0

\* Mutant: the guard names the wrong status
CloseFails_WrongStatus(code, job) ==
    (code.null \/ code.val # 0) /\ job.status # "error"

\* code !== 0 && job.status !== "done"
CloseFails(code, job) == (code.null \/ code.val # 0) /\ job.status # "done"

\* "close" fires once the process has ended and its stdout has been drained
Close(j) ==
    /\ proc[j].phase = "exited"
    /\ rd[j].n = Len(out[j])
    /\ j \notin closed
    /\ closed' = closed \cup {j}
    /\ LET code == proc[j].code
       IN IF CloseFails(code, jobs[j])
          THEN /\ jobs' = [jobs EXCEPT ![j].status = "error",
                                       ![j].error = ExitMessage(code)]
               /\ emitted' = [emitted EXCEPT ![j] =
                                Append(@, [event |-> "error", jobId |-> j,
                                           error |-> ExitMessage(code)])]
          ELSE UNCHANGED <<jobs, emitted>>
    /\ proc' = [proc EXCEPT ![j] = Reaped(@)]
    /\ out' = [out EXCEPT ![j] = << >>]
    /\ rd' = [rd EXCEPT ![j] = [n |-> 0, partial |-> FALSE]]
    /\ UNCHANGED pending
    /\ Sent

(* ------------------------------------------------------------------ *)
(* GET /api/count                                                      *)
(* ------------------------------------------------------------------ *)
GetCount ==
    /\ countResp' = [kind |-> "count", totalCount |-> JobStore_totalCount,
                     jobs |-> JobStore_size]
    /\ UNCHANGED <<jobs, emitted, proc, out, rd, closed, pending>>
    /\ UNCHANGED pipeVars

(* ------------------------------------------------------------------ *)
(* The processor's pipeline: Tracker and Line-Crossing Counter         *)
(* ------------------------------------------------------------------ *)
\* Centroids are rows of the frame; a frame has the rows 0 .. Height - 1.
Height == 4
Rows == 0..(Height - 1)
\* The counting line of the run, a fraction of the frame height (hundredths)
LinePos == 50
maxMatchDistance == 2
maxMissedFrames == 1

\* The detections a frame can hold after the min-area filter, as centroids;
\* the discovery order is top to bottom.
DetectionSets == {d \in SUBSET Rows : Cardinality(d) <= 2}

Abs(x) == IF x < 0 THEN -x ELSE x
Sign(x) == IF x < 0 THEN -1 ELSE IF x > 0 THEN 1 ELSE 0

\* sign(y - lineY), lineY = LinePos * Height / 100
Side(y) == Sign(100 * y - LinePos * Height)

Last(h) == h[Len(h)]

\* Distance between a track's last known centroid and a detection
Dist(t, d) == Abs(Last(tracks[t].hist) - d)

\* Increasing distance, then ascending track id, then discovery order
Before(p, q) ==
    \/ Dist(p[1], p[2]) < Dist(q[1], q[2])
    \/ Dist(p[1], p[2]) = Dist(q[1], q[2]) /\ p[1] < q[1]
    \/ Dist(p[1], p[2]) = Dist(q[1], q[2]) /\ p[1] = q[1] /\ p[2] < q[2]

\* Greedy matching of track-detection pairs
RECURSIVE Greedy(_, _)
Greedy(cands, matched) ==
    IF cands = {} THEN matched
    ELSE LET best == CHOOSE p \in cands : \A q \in cands : p = q \/ Before(p, q)
         IN Greedy({q \in cands : q[1] # best[1] /\ q[2] # best[2]},
                   matched \cup {best})

Match(dets) ==
    Greedy({p \in (DOMAIN tracks) \X dets : Dist(p[1], p[2]) <= maxMatchDistance},
           {})

\* The ids given to the unmatched detections, in discovery order
NewIdOf(unmatched, d) == nextId + Cardinality({e \in unmatched : e < d})

\* Tracker update: matched tracks take the new centroid, unmatched tracks age
\* and retire, unmatched detections open new tracks.
TrackerUpdate(dets) ==
    LET m == Match(dets)
        matchedT == {p[1] : p \in m}
        unmatchedD == dets \ {p[2] : p \in m}
        detOf(t) == (CHOOSE p \in m : p[1] = t)[2]
        kept == {t \in DOMAIN tracks :
                    t \in matchedT \/ tracks[t].missed + 1 <= maxMissedFrames}
        newIds == {NewIdOf(unmatchedD, d) : d \in unmatchedD}
        detOfNew(id) == CHOOSE d \in unmatchedD : NewIdOf(unmatchedD, d) = id
    IN [t \in kept \cup newIds |->
          IF t \in newIds
          THEN [hist |-> <<detOfNew(t)>>, missed |-> 0, counted |-> FALSE,
                updated |-> TRUE]
          ELSE IF t \in matchedT
          THEN [hist |-> <<Last(tracks[t].hist), detOf(t)>>, missed |-> 0,
                counted |-> tracks[t].counted, updated |-> TRUE]
          ELSE [tracks[t] EXCEPT !.missed = @ + 1, !.updated = FALSE]]

\* A crossing in the counted direction: previous above the line, current not,
\* or previous on the line and current below
Crossed(hist) ==
    /\ Len(hist) >= 2
    /\ Side(hist[1]) # Side(hist[2])
    /\ Side(hist[1]) < Side(hist[2])

\* Mutant: the counted flag is not looked at
ToCount_AnyCrossing(ts) ==
    {t \in DOMAIN ts : ts[t].updated /\ Crossed(ts[t].hist)}

\* The tracks the counter counts in this frame
ToCount(ts) ==
    {t \in DOMAIN ts : ts[t].updated /\ Crossed(ts[t].hist) /\ ~ts[t].counted}

\* Line-Crossing Counter: set the flag and append a CountEvent
CounterUpdate(ts) ==
    [t \in DOMAIN ts |-> IF t \in ToCount(ts) THEN [ts[t] EXCEPT !.counted = TRUE]
                                               ELSE ts[t]]

\* The running total
totalCount == Cardinality(events)

PipeInit ==
    /\ tracks = << >>
    /\ nextId = 0
    /\ events = {}
    /\ frameIdx = 0

\* One frame through Tracker and Counter
ProcessFrame(dets) ==
    /\ frameIdx < VideoFrames
    /\ LET ts == TrackerUpdate(dets)
       IN /\ tracks' = CounterUpdate(ts)
          /\ events' = events \cup {[track |-> t, frame |-> frameIdx] : t \in ToCount(ts)}
          /\ nextId' = nextId + Cardinality(DOMAIN ts \ DOMAIN tracks)
    /\ frameIdx' = frameIdx + 1
    /\ UNCHANGED srvVars

\* End of video: every remaining track is removed
EndOfVideo ==
    /\ frameIdx = VideoFrames
    /\ DOMAIN tracks # {}
    /\ tracks' = << >>
    /\ UNCHANGED <<nextId, events, frameIdx>>
    /\ UNCHANGED srvVars

(* ------------------------------------------------------------------ *)
(* The server                                                          *)
(* ------------------------------------------------------------------ *)
ExitCodes == {Code(0), Code(1)}

vars == <<jobs, emitted, proc, out, rd, closed, pending, countResp,
          tracks, nextId, events, frameIdx>>

Init == SrvInit /\ PipeInit

Next ==
    \/ \E ext \in Extensions, mime \in MimeTypes,
          lp \in LinePositionFields, ma \in MinAreaFields :
            UploadRequest(ext, mime, lp, ma)
    \/ UploadHandler
    \/ \E j \in JobIds : ProcConfigError(j)
    \/ \E j \in JobIds : ProcFatal(j)
    \/ \E j \in JobIds, new \in NewPerFrame : ProcFrame(j, new)
    \/ \E j \in JobIds : ProcComplete(j)
    \/ \E j \in JobIds, code \in ExitCodes : ProcExit(j, code)
    \/ \E j \in JobIds : ProcKill(j)
    \/ \E j \in JobIds, to \in [n : 0..(TotalFrames + 1), partial : BOOLEAN] :
            StdoutData(j, to)
    \/ \E j \in JobIds : Close(j)
    \/ GetCount

Spec == Init /\ [][Next]_vars

\* Several jobs processing at the same time.  Every video has an object
\* crossing the line in each frame.
NextConcurrent ==
    \/ \E ext \in Extensions, mime \in MimeTypes,
          lp \in LinePositionFields, ma \in MinAreaFields :
            UploadRequestConcurrent(ext, mime, lp, ma)
    \/ UploadHandler
    \/ \E j \in JobIds : ProcConfigError(j)
    \/ \E j \in JobIds : ProcFatal(j)
    \/ \E j \in JobIds : ProcFrame(j, 1)
    \/ \E j \in JobIds : ProcComplete(j)
    \/ \E j \in JobIds, code \in ExitCodes : ProcExit(j, code)
    \/ \E j \in JobIds : ProcKill(j)
    \/ \E j \in JobIds, to \in [n : 0..(TotalFrames + 1), partial : BOOLEAN] :
            StdoutData(j, to)
    \/ \E j \in JobIds : Close(j)

SpecConcurrent == Init /\ [][NextConcurrent]_vars

NextPipeline ==
    \/ \E dets \in DetectionSets : ProcessFrame(dets)
    \/ EndOfVideo

SpecPipeline == Init /\ [][NextPipeline]_vars

(* ------------------------------------------------------------------ *)
(* Notions the properties are stated with                              *)
(* ------------------------------------------------------------------ *)
\* The notifications of one kind emitted for a job
Notifs(j, kind) == SelectSeq(emitted[j], LAMBDA e : e.event = kind)

\* The notifications that carry a count, in the order they were emitted
Counting(j) == SelectSeq(emitted[j], LAMBDA e : e.event \in {"progress", "done"})

NonDecreasing(seq, F(_)) ==
    \A a, b \in 1..Len(seq) : a < b => F(seq[a]) <= F(seq[b])

ProgressOf(e) == e.progress
CountOf(e) == e.count

\* The exit code is a number other than 0
NonZero(code) == ~code.null /\ code.val # 0

\* The sum of the counts of a set of jobs
RECURSIVE SumCounts(_)
SumCounts(S) ==
    IF S = {} THEN 0
    ELSE LET j == CHOOSE x \in S : TRUE
         IN jobs[j].count + SumCounts(S \ {j})

DoneJobs == {j \in DOMAIN jobs : jobs[j].status = "done"}

(* ------------------------------------------------------------------ *)
(* C1                                                                  *)
(* ------------------------------------------------------------------ *)
EventsOf(t) == {e \in events : e.track = t}

\* C1: each track is counted exactly once: no track ever has more than one
\* CountEvent, the counted flag of a track never reverts to false, and a
\* track whose flag is set adds no further CountEvent, however it crosses.
C1_CountedOnce ==
    [][ /\ \A e1, e2 \in events' : e1.track = e2.track => e1 = e2
        /\ \A t \in DOMAIN tracks \cap DOMAIN tracks' :
              tracks[t].counted =>
                 /\ tracks'[t].counted
                 /\ {e \in events' : e.track = t} = EventsOf(t) ]_vars

\* A counted track has just crossed the line again in the counted direction
C1_Witness ==
    \E t \in DOMAIN tracks :
        /\ tracks[t].counted
        /\ tracks[t].updated
        /\ Crossed(tracks[t].hist)
        /\ \E e \in EventsOf(t) : e.frame + 1 < frameIdx

(* ------------------------------------------------------------------ *)
(* C2                                                                  *)
(* ------------------------------------------------------------------ *)
\* C2: the progress of a job, on its record and in its progress
\* notifications, never decreases and never exceeds 100, and it is 100
\* whenever the job is done.
C2_ProgressMonotone ==
    /\ [](\A j \in DOMAIN jobs :
            /\ jobs[j].progress <= 100
            /\ jobs[j].status = "done" => jobs[j].progress = 100
            /\ NonDecreasing(Notifs(j, "progress"), ProgressOf)
            /\ \A i \in 1..Len(emitted[j]) :
                  emitted[j][i].event = "progress" => emitted[j][i].progress <= 100)
    /\ [][\A j \in DOMAIN jobs : jobs[j].progress <= jobs'[j].progress]_vars

\* A job is done although its last progress line was lost: the 100 on its
\* record is the one the result line set
C2_Witness ==
    \E j \in DOMAIN jobs :
        /\ jobs[j].status = "done"
        /\ Len(Notifs(j, "progress")) >= 1
        /\ \A i \in 1..Len(emitted[j]) :
              emitted[j][i].event = "progress" => emitted[j][i].progress < 100

(* ------------------------------------------------------------------ *)
(* C3                                                                  *)
(* ------------------------------------------------------------------ *)
\* C3: after the close event of a processor that delivered no final result
\* the job is in status error and an error notification has been emitted,
\* whatever the exit code; no closed job is still processing.
C3_ClosedWithoutResultFails ==
    \A j \in closed :
        /\ jobs[j].status # "processing"
        /\ Len(Notifs(j, "done")) = 0 =>
              jobs[j].status = "error" /\ Len(Notifs(j, "error")) >= 1

C5_TotalCountsDoneJobs ==
    countResp.kind = "count" => countResp.totalCount = SumCounts(DoneJobs)

\* The count route answers while one job is done and another one, not done,
\* has a running count
C5_Witness ==
    /\ countResp.kind = "count"
    /\ \E j, k \in DOMAIN jobs :
          /\ jobs[j].status = "done" /\ jobs[j].count > 0
          /\ jobs[k].status # "done" /\ jobs[k].count > 0

(* ------------------------------------------------------------------ *)
(* C6                                                                  *)
(* ------------------------------------------------------------------ *)
\* C6: a job whose processor was killed before it completed never reports
\* done and ends in an aborted outcome, which is neither done nor error.
C6_AbortedIsItsOwnOutcome ==
    \A j \in closed :
        proc[j].code.null /\ Len(Notifs(j, "done")) = 0 =>
            jobs[j].status \notin {"processing", "done", "error"}

(* ------------------------------------------------------------------ *)
(* C7                                                                  *)
(* ------------------------------------------------------------------ *)
\* The body carries a line position outside [0,1] or a negative min-area
OutOfRange(body) ==
    LET lp == parseFloat(body.linePosition)
        ma == parseInt(body.minArea)
    IN \/ ~lp.nan /\ (lp.val < 0 \/ lp.val > 100)
       \/ ~ma.nan /\ ma.val < 0

\* The route handler runs on an upload that carries a file
HandlesUpload == pending.kind = "upload" /\ pending.file /\ pending'.kind = "none"

\* C7: an upload with an out-of-range linePosition or minArea is rejected
\* before processing starts: the handler spawns no processor for it, and no
\* progress or done notification is emitted for it.
C7_OutOfRangeUploadRejected ==
    /\ [][HandlesUpload /\ OutOfRange(pending) => proc' = proc]_vars
    /\ [](\A j \in JobIds :
            proc[j].phase # "none" /\ ~ConfigValid(proc[j].argv) =>
                Len(Counting(j)) = 0)

(* ------------------------------------------------------------------ *)
(* C8                                                                  *)
(* ------------------------------------------------------------------ *)
\* C8: the running count of a job never decreases, on its record and from
\* one notification to the next, the count of the done notification included.
C8_CountMonotone ==
    /\ [](\A j \in JobIds : NonDecreasing(Counting(j), CountOf))
    /\ [][\A j \in DOMAIN jobs : jobs[j].count <= jobs'[j].count]_vars

\* A job is done after its running count has grown between two notifications
C8_Witness ==
    \E j \in DOMAIN jobs :
        /\ Len(Notifs(j, "done")) = 1
        /\ \E a, b \in 1..Len(Notifs(j, "progress")) :
              /\ a < b
              /\ Notifs(j, "progress")[a].count < Notifs(j, "progress")[b].count

(* ------------------------------------------------------------------ *)
(* C9                                                                  *)
(* ------------------------------------------------------------------ *)
\* C9: an upload that supplies a linePosition in [0,1] starts the processor
\* with exactly that line position; the default 0.5 replaces the field only
\* when it is absent or not a number.
C9_LinePositionPassedOn ==
    [][HandlesUpload =>
         LET lp == parseFloat(pending.linePosition)
             arg == ArgFraction(proc'[JobOrder[JobStore_size + 1]].argv.linePos)
         IN /\ ~lp.nan /\ lp.val >= 0 /\ lp.val <= 100 => arg = lp.val
            /\ arg = 50 /\ ~lp.nan => lp.val = 50 ]_vars

(* ------------------------------------------------------------------ *)
(* C10                                                                 *)
(* ------------------------------------------------------------------ *)
\* C10: at most one terminal notification is emitted for a job: never both
\* done and error, and neither of them twice.
C10_OneTerminalNotification ==
    \A j \in JobIds : Len(Notifs(j, "done")) + Len(Notifs(j, "error")) <= 1

\* A processor has closed with a non-zero code after its job was done
C10_Witness ==
    \E j \in closed :
        /\ NonZero(proc[j].code)
        /\ Len(Notifs(j, "done")) = 1
        /\ Len(Notifs(j, "error")) = 0

(* ------------------------------------------------------------------ *)
(* C11                                                                 *)
(* ------------------------------------------------------------------ *)
\* The step is a stdout data event or the close event of the processor of j
EventOf(j) == rd'[j] # rd[j] \/ (j \in closed' /\ j \notin closed)

\* C11: with several jobs processing at the same time, a stdout data or close
\* event of one job's processor leaves the record of every other job in the
\* store as it is: status, progress, count, outputPath and error.
C11_EventsTouchOwnJobOnly ==
    [][\A j \in DOMAIN jobs :
          EventOf(j) => \A k \in DOMAIN jobs \ {j} : jobs'[k] = jobs[k]]_vars

\* Two jobs are processing at the same time and lines of both have been
\* relayed, one job being ahead of the other
C11_Witness ==
    \E j, k \in DOMAIN jobs :
        /\ j # k
        /\ j \notin closed /\ k \notin closed
        /\ jobs[j].status = "processing" /\ jobs[k].status = "processing"
        /\ Len(emitted[j]) >= 1 /\ Len(emitted[k]) >= 1
        /\ jobs[j].progress < jobs[k].progress

(* ------------------------------------------------------------------ *)
(* C12                                                                 *)
(* ------------------------------------------------------------------ *)
\* The processor of j has written its final record and left with code 0
CompletedRun(j) ==
    /\ proc[j].phase = "exited"
    /\ proc[j].code = Code(0)
    /\ Len(out[j]) >= 1
    /\ "output_path" \in DOMAIN Last(out[j])

\* C12: when the processor has written a complete result line and exited
\* with code 0, the job is done with the count and the output path of that
\* line once its stdout has been delivered, however the stream was cut into
\* chunks, and it is done after the close event.
C12_ChunkingDoesNotMatter ==
    \A j \in DOMAIN jobs :
        /\ CompletedRun(j) /\ rd[j].n = Len(out[j]) =>
              /\ jobs[j].status = "done"
              /\ jobs[j].count = Last(out[j]).count
              /\ jobs[j].outputPath = Last(out[j]).output_path
        /\ j \in closed /\ proc[j].code = Code(0) => jobs[j].status = "done"

(* ------------------------------------------------------------------ *)
(* C13                                                                 *)
(* ------------------------------------------------------------------ *)
\* C13: a job enters the store in status processing, and a status of done or
\* error never changes again.
C13_TerminalStatusAbsorbing ==
    [][ /\ \A j \in DOMAIN jobs' \ DOMAIN jobs : jobs'[j].status = "processing"
        /\ \A j \in DOMAIN jobs :
              jobs[j].status \in {"done", "error"} =>
                 jobs'[j].status = jobs[j].status ]_vars

\* The close event of a killed processor has fired on a job that was done
C13_Witness ==
    \E j \in closed : jobs[j].status = "done" /\ proc[j].code.null

=============================================================================
